---- MODULE Spec2Model ----
(***************************************************************************)
(* vibeMK: the CheckMK REST API client (api/client.py).                    *)
(*                                                                         *)
(* Two parts of CheckMKClient are modelled:                                *)
(*   - construction with endpoint detection (__init__, _detect_api_url),   *)
(*     one step per candidate probed;                                      *)
(*   - one logical call (get/post/put/delete/patch -> request), one step   *)
(*     per wire request, with the retry decisions of _handle_http_error    *)
(*     and _handle_general_error.                                          *)
(* The monitored server and the transport are the environment: each wire   *)
(* request draws its outcome from the sets below.                          *)
(***************************************************************************)
EXTENDS Integers, Sequences, FiniteSets, TLC

\* ------------------------------------------------------------------ bounds
MaxRetriesBound == 2    \* config.max_retries ranges over 0..MaxRetriesBound
MaxCalls == 2           \* logical calls made on one client
MaxTimeout == 2         \* config.timeout ranges over 1..MaxTimeout where time is measured

\* ------------------------------------------------- configuration (settings)
\* CheckMKConfig.__post_init__ rejects max_retries < 0.
ValidMaxRetries(n) == n >= 0

MaxRetriesValues == {n \in 0..MaxRetriesBound : ValidMaxRetries(n)}

\* CheckMKConfig.timeout: 30 unless configured; __post_init__ rejects
\* timeout <= 0.
DefaultTimeout == 30

ValidTimeout(t) == t > 0

TimeoutValues == {t \in 0..MaxTimeout : ValidTimeout(t)}

\* ----------------------------------------------------- transport outcomes
\* What urlopen can do with one wire request: hand back a response (urllib
\* only returns 2xx responses), raise HTTPError with a status code, or raise
\* another exception.  Every outcome is a record of the same shape.
Methods == {"GET", "POST", "PUT", "DELETE", "PATCH"}

\* Bodies of a returned response, by what .decode() and json.loads do to them.
Bodies == {"empty", "json", "bad_json", "not_utf8"}

SuccessStatuses == {200, 204}

HTTPErrorCodes == {400, 401, 403, 404, 500, 501, 502, 503, 504}

\* Exceptions other than HTTPError.  cls is the Python class; msg_timeout says
\* whether str(error).lower() contains "timeout"; is_timeout says whether the
\* failure is a transport timeout (socket.timeout prints as "timed out", and
\* urllib wraps a timeout while connecting in URLError).
Exc(cls, msg_timeout, is_timeout) ==
    [cls |-> cls, msg_timeout |-> msg_timeout, is_timeout |-> is_timeout]

Exceptions ==
    { Exc("TimeoutError", FALSE, TRUE),    \* socket.timeout("timed out")
      Exc("TimeoutError", TRUE, TRUE),     \* TimeoutError("... timeout ...")
      Exc("URLError", FALSE, TRUE),        \* URLError(socket.timeout("timed out"))
      Exc("URLError", FALSE, FALSE),       \* connection refused, DNS failure
      Exc("OSError", TRUE, TRUE),          \* OSError("... timeout ...")
      Exc("OSError", FALSE, FALSE),        \* ConnectionResetError while reading
      Exc("StopIteration", FALSE, FALSE) } \* exhausted test mock

NoExc == Exc("-", FALSE, FALSE)

Response(status, body) ==
    [kind |-> "response", status |-> status, body |-> body, exc |-> NoExc]

\* Bodies of an HTTPError, by what json.loads(error.read().decode()) and the
\* "response_data or {}" of CheckMKError make of them: a non-empty JSON
\* object, the empty object {}, other JSON that is falsy in Python ([], null,
\* 0, false, ""), and text or bytes that json.loads rejects.
ErrorBodies == {"json", "{}", "falsy_json", "not_json"}

HTTPErrorBody(code, body) ==
    [kind |-> "http_error", status |-> code, body |-> body, exc |-> NoExc]

HTTPError(code) == HTTPErrorBody(code, "not_json")

Raised(e) ==
    [kind |-> "raised", status |-> 0, body |-> "-", exc |-> e]

CallOutcomes ==
    {Response(s, b) : s \in SuccessStatuses, b \in Bodies}
    \cup {HTTPError(c) : c \in HTTPErrorCodes}
    \cup {Raised(e) : e \in Exceptions}

\* Python's class hierarchy, as far as isinstance() is asked about it.
IsInstance(cls, base) ==
    \/ cls = base
    \/ base = "OSError" /\ cls \in {"TimeoutError", "URLError"}
    \/ base = "Exception"

\* Variant: 3**retry_count.
Pow2_base3(n) == 3 ^ n

\* 2**retry_count.
RECURSIVE Pow2(_)
Pow2(n) == IF n = 0 THEN 1 ELSE 2 * Pow2(n - 1)

\* ------------------------------------------------ what one attempt decides
\* An attempt of request() either returns an envelope, raises a typed error,
\* or sleeps and calls request() again with retry_count + 1.
NoDecision ==
    [do |-> "none", sleep |-> 0, cls |-> "-", msg |-> "-", status_code |-> 0, data |-> "-"]

\* Variant: the delay of the next attempt index.
Retry_next_index(retry_count) ==
    [do |-> "retry", sleep |-> Pow2(retry_count + 1), cls |-> "-", msg |-> "-",
     status_code |-> 0, data |-> "-"]

\* time.sleep(2**retry_count), then request(..., retry_count + 1).
Retry(retry_count) ==
    [do |-> "retry", sleep |-> Pow2(retry_count), cls |-> "-", msg |-> "-",
     status_code |-> 0, data |-> "-"]

\* CheckMKError(message, status_code, response_data); status_code 0 stands for
\* None; "response_data or {}" turns None and falsy JSON into the empty dict.
Raise(cls, msg, status_code, data) ==
    [do |-> "raise", sleep |-> 0, cls |-> cls, msg |-> msg,
     status_code |-> status_code,
     data |-> IF data \in {"None", "falsy_json", "{}"} THEN "{}" ELSE data]

\* An exception raised outside the try block of request() leaves it as is.
Escape(cls) ==
    [do |-> "raise", cls |-> cls, msg |-> "-", sleep |-> 0, status_code |-> 0,
     data |-> "-"]

\* The envelope {"status", "data", "success": True, "raw_content", "headers"}.
Return(status, data) ==
    [do |-> "return", sleep |-> 0, cls |-> "-", msg |-> "-",
     status_code |-> status, data |-> data]

\* Variant: every 5xx status is taken for transient.
RetryableCodes_all5xx == {500, 501, 502, 503, 504}

RetryableCodes == {500, 502, 503, 504}

\* Variant: the body of the error response is not looked at.
ErrorData_synthetic(body) == "{error: reason}"

\* error_data: json.loads(error.read().decode()), or {"error": error.reason}
\* when that raises.
ErrorData(body) ==
    IF body \in {"json", "{}", "falsy_json"} THEN body ELSE "{error: reason}"

\* Variant: the retry bound is off by one (<= instead of <).
handle_http_error_offbyone(error, retry_count, max_retries) ==
    IF error.status \in {500, 502, 503, 504} /\ retry_count <= max_retries
    THEN Retry(retry_count)
    ELSE IF error.status = 401
    THEN Raise("CheckMKAuthenticationError", "Authentication failed", error.status, ErrorData(error.body))
    ELSE IF error.status = 403
    THEN Raise("CheckMKPermissionError", "Permission denied", error.status, ErrorData(error.body))
    ELSE IF error.status = 404
    THEN Raise("CheckMKNotFoundError", "Resource not found", error.status, ErrorData(error.body))
    ELSE Raise("CheckMKAPIError", "HTTP error", error.status, ErrorData(error.body))

\* Variant: the 403 branch is missing, so 403 falls into the generic error.
handle_http_error_no403(error, retry_count, max_retries) ==
    IF error.status \in {500, 502, 503, 504} /\ retry_count < max_retries
    THEN Retry(retry_count)
    ELSE IF error.status = 401
    THEN Raise("CheckMKAuthenticationError", "Authentication failed", error.status, ErrorData(error.body))
    ELSE IF error.status = 404
    THEN Raise("CheckMKNotFoundError", "Resource not found", error.status, ErrorData(error.body))
    ELSE Raise("CheckMKAPIError", "HTTP error", error.status, ErrorData(error.body))

handle_http_error(error, retry_count, max_retries) ==
    IF error.status \in RetryableCodes /\ retry_count < max_retries
    THEN Retry(retry_count)
    ELSE IF error.status = 401
    THEN Raise("CheckMKAuthenticationError", "Authentication failed", error.status, ErrorData(error.body))
    ELSE IF error.status = 403
    THEN Raise("CheckMKPermissionError", "Permission denied", error.status, ErrorData(error.body))
    ELSE IF error.status = 404
    THEN Raise("CheckMKNotFoundError", "Resource not found", error.status, ErrorData(error.body))
    ELSE Raise("CheckMKAPIError", "HTTP error", error.status, ErrorData(error.body))

\* Variant: the isinstance(error, TimeoutError) check is missing, so a
\* timeout whose message lacks the word "timeout" reaches the retry logic.
handle_general_error_msg_only(error, retry_count, max_retries) ==
    IF /\ IsInstance(error.cls, "TimeoutError") \/ IsInstance(error.cls, "OSError")
       /\ error.msg_timeout
    THEN Raise("CheckMKConnectionError", "Request timeout", 0, "None")
    ELSE IF IsInstance(error.cls, "URLError")
    THEN Raise("CheckMKConnectionError", "Connection error", 0, "None")
    ELSE IF retry_count < max_retries /\ ~IsInstance(error.cls, "StopIteration")
    THEN Retry(retry_count)
    ELSE IF IsInstance(error.cls, "StopIteration")
    THEN Raise("CheckMKConnectionError", "Mock iteration exhausted", 0, "None")
    ELSE Raise("CheckMKConnectionError", "Connection failed", 0, "None")

\* Variant: general errors are never retried.
handle_general_error_no_retry(error, retry_count, max_retries) ==
    IF /\ IsInstance(error.cls, "TimeoutError") \/ IsInstance(error.cls, "OSError")
       /\ error.msg_timeout
    THEN Raise("CheckMKConnectionError", "Request timeout", 0, "None")
    ELSE IF IsInstance(error.cls, "TimeoutError")
    THEN Raise("CheckMKConnectionError", "Request timeout", 0, "None")
    ELSE IF IsInstance(error.cls, "URLError")
    THEN Raise("CheckMKConnectionError", "Connection error", 0, "None")
    ELSE IF IsInstance(error.cls, "StopIteration")
    THEN Raise("CheckMKConnectionError", "Mock iteration exhausted", 0, "None")
    ELSE Raise("CheckMKConnectionError", "Connection failed", 0, "None")

handle_general_error(error, retry_count, max_retries) ==
    IF /\ IsInstance(error.cls, "TimeoutError") \/ IsInstance(error.cls, "OSError")
       /\ error.msg_timeout
    THEN Raise("CheckMKConnectionError", "Request timeout", 0, "None")
    ELSE IF IsInstance(error.cls, "TimeoutError")
    THEN Raise("CheckMKConnectionError", "Request timeout", 0, "None")
    ELSE IF IsInstance(error.cls, "URLError")
    THEN Raise("CheckMKConnectionError", "Connection error", 0, "None")
    ELSE IF retry_count < max_retries /\ ~IsInstance(error.cls, "StopIteration")
    THEN Retry(retry_count)
    ELSE IF IsInstance(error.cls, "StopIteration")
    THEN Raise("CheckMKConnectionError", "Mock iteration exhausted", 0, "None")
    ELSE Raise("CheckMKConnectionError", "Connection failed", 0, "None")

\* response.read().decode() raises UnicodeDecodeError on bytes that are not
\* UTF-8; the error is raised inside the try block and is not one of the
\* client's own exceptions, so "except Exception" hands it on.
DecodeError == Exc("UnicodeDecodeError", FALSE, FALSE)

\* Variant: the transport-error path counts its own retries from zero.
request_own_counter(o, retry_count, max_retries) ==
    IF o.kind = "http_error"
    THEN handle_http_error(o, retry_count, max_retries)
    ELSE IF o.kind = "raised"
    THEN handle_general_error(o.exc, 0, max_retries)
    ELSE IF o.body = "not_utf8"
    THEN handle_general_error(DecodeError, 0, max_retries)
    ELSE IF o.body = "bad_json"
    THEN Raise("CheckMKAPIError", "Invalid JSON response", o.status, "raw")
    ELSE Return(o.status, IF o.body = "empty" THEN "{}" ELSE "json")

\* The try block of request() for one wire request with outcome o.
request(o, retry_count, max_retries) ==
    IF o.kind = "http_error"
    THEN handle_http_error(o, retry_count, max_retries)
    ELSE IF o.kind = "raised"
    THEN handle_general_error(o.exc, retry_count, max_retries)
    ELSE IF o.body = "not_utf8"
    THEN handle_general_error(DecodeError, retry_count, max_retries)
    ELSE IF o.body = "bad_json"
    THEN Raise("CheckMKAPIError", "Invalid JSON response", o.status, "raw")
    ELSE Return(o.status, IF o.body = "empty" THEN "{}" ELSE "json")

\* --------------------------------------------------- strings and encoding
\* A string is a sequence of symbols: a symbol is one reserved character
\* (one that urllib.parse.quote escapes, or "/") or a run of unreserved
\* characters such as "columns" or "1.0".
\* A Python value is a string, a list of values or a dict (a sequence of
\* << key, value >> pairs in insertion order, keys being strings).
Str(s) == [t |-> "str", v |-> s]

List(items) == [t |-> "list", v |-> items]

Dict(pairs) == [t |-> "dict", v |-> pairs]

\* The characters quote() escapes, with the hex digits of their byte.
PercentCodes ==
    [x \in {" ", "\"", "%", "&", "'", ",", ":", "=", "?", "[", "\\", "]", "{", "}"} |->
        CASE x = " "  -> "20" [] x = "\"" -> "22" [] x = "%" -> "25"
          [] x = "&"  -> "26" [] x = "'"  -> "27" [] x = "," -> "2C"
          [] x = ":"  -> "3A" [] x = "="  -> "3D" [] x = "?" -> "3F"
          [] x = "["  -> "5B" [] x = "\\" -> "5C" [] x = "]" -> "5D"
          [] x = "{"  -> "7B" [] x = "}"  -> "7D"]

\* A character str can hold and UTF-8 cannot encode (json.loads('"\\ud800"')).
LoneSurrogate == "{lone surrogate}"

\* quote() encodes the string as UTF-8 first and raises UnicodeEncodeError
\* when that fails.
quote_raises(string) == \E i \in 1..Len(string) : string[i] = LoneSurrogate

\* Variant: nothing is escaped.
quote_identity(string) == string

\* urllib.parse.quote(string) with the default safe="/".
RECURSIVE quote(_)
quote(string) ==
    IF string = << >> THEN << >>
    ELSE (IF Head(string) \in DOMAIN PercentCodes
          THEN << "%", PercentCodes[Head(string)] >>
          ELSE << Head(string) >>) \o quote(Tail(string))

\* sep.join(parts)
RECURSIVE Join(_, _)
Join(parts, sep) ==
    IF parts = << >> THEN << >>
    ELSE IF Len(parts) = 1 THEN parts[1]
    ELSE parts[1] \o sep \o Join(Tail(parts), sep)

\* The escapes json.dumps applies inside a string.
RECURSIVE JsonEscape(_)
JsonEscape(string) ==
    IF string = << >> THEN << >>
    ELSE (IF Head(string) \in {"\"", "\\"}
          THEN << "\\", Head(string) >>
          ELSE << Head(string) >>) \o JsonEscape(Tail(string))

\* json.dumps(value) with the default separators (", ", ": ").
RECURSIVE json_dumps(_)
json_dumps(value) ==
    IF value.t = "str" THEN << "\"" >> \o JsonEscape(value.v) \o << "\"" >>
    ELSE IF value.t = "list"
    THEN << "[" >> \o Join([i \in 1..Len(value.v) |-> json_dumps(value.v[i])], << ",", " " >>)
         \o << "]" >>
    ELSE << "{" >>
         \o Join([i \in 1..Len(value.v) |->
                     json_dumps(Str(value.v[i][1])) \o << ":", " " >>
                     \o json_dumps(value.v[i][2])], << ",", " " >>)
         \o << "}" >>

\* str(value): a string is itself; a list prints as ['a', 'b'] (its elements
\* here are strings without quotes or backslashes).
py_str(value) ==
    IF value.t = "str" THEN value.v
    ELSE << "[" >>
         \o Join([i \in 1..Len(value.v) |-> << "'" >> \o value.v[i].v \o << "'" >>],
                 << ",", " " >>)
         \o << "]" >>

\* Variant: the columns list is joined with commas into one pair.
url_params_of_joined(key, value) ==
    IF key = << "columns" >> /\ value.t = "list"
    THEN << << "columns", "=" >>
            \o quote(Join([i \in 1..Len(value.v) |-> py_str(value.v[i])], << "," >>)) >>
    ELSE IF key = << "query" >> /\ value.t = "dict"
    THEN << << "query", "=" >> \o quote(json_dumps(value)) >>
    ELSE << key \o << "=" >> \o quote(py_str(value)) >>

\* The entries one item of params adds to url_params.
url_params_of(key, value) ==
    IF key = << "columns" >> /\ value.t = "list"
    THEN [i \in 1..Len(value.v) |-> << "columns", "=" >> \o quote(py_str(value.v[i]))]
    ELSE IF key = << "query" >> /\ value.t = "dict"
    THEN << << "query", "=" >> \o quote(json_dumps(value)) >>
    ELSE << key \o << "=" >> \o quote(py_str(value)) >>

\* url_params after the loop over params.items().
RECURSIVE url_params(_)
url_params(params) ==
    IF params = << >> THEN << >>
    ELSE url_params_of(params[1][1], params[1][2]) \o url_params(Tail(params))

\* Whether the loop over params.items() raises: only quote() can, on the
\* elements of a columns list and on the values of ordinary keys (json.dumps
\* writes non-ASCII characters as \u escapes).
RECURSIVE url_params_raise(_)
url_params_raise(params) ==
    IF params = << >> THEN FALSE
    ELSE \/ LET key == params[1][1]
                value == params[1][2]
            IN  IF key = << "columns" >> /\ value.t = "list"
                THEN \E i \in 1..Len(value.v) : quote_raises(py_str(value.v[i]))
                ELSE IF key = << "query" >> /\ value.t = "dict"
                THEN FALSE
                ELSE quote_raises(py_str(value))
         \/ url_params_raise(Tail(params))

\* "if params: ... if url_params: url += '?' + '&'.join(url_params)"; params
\* None and params {} are both the empty sequence here.
with_params(url, params) ==
    IF params # << >> /\ url_params(params) # << >>
    THEN url \o << "?" >> \o Join(url_params(params), << "&" >>)
    ELSE url

\* ------------------------------------------------------------------ headers
\* A dict of headers is a sequence of << key, value >> pairs with distinct
\* keys, in insertion order.
HasKey(d, key) == \E i \in 1..Len(d) : d[i][1] = key

\* d[key] = value: an existing key keeps its position, a new one goes last.
dict_set(d, key, value) ==
    IF HasKey(d, key)
    THEN [i \in 1..Len(d) |-> IF d[i][1] = key THEN << key, value >> ELSE d[i]]
    ELSE Append(d, << key, value >>)

\* Variant: keys that are already present keep their value (setdefault).
RECURSIVE dict_update_keep(_, _)
dict_update_keep(d, other) ==
    IF other = << >> THEN d
    ELSE dict_update_keep(IF HasKey(d, other[1][1]) THEN d
                          ELSE dict_set(d, other[1][1], other[1][2]),
                          Tail(other))

\* d.update(other)
RECURSIVE dict_update(_, _)
dict_update(d, other) ==
    IF other = << >> THEN d
    ELSE dict_update(dict_set(d, other[1][1], other[1][2]), Tail(other))

\* self.headers as _setup_headers builds it.
DefaultHeaders ==
    << << "Authorization", "Basic {credentials}" >>,
       << "Accept", "application/json" >>,
       << "Content-Type", "application/json" >>,
       << "User-Agent", "vibeMK/config.settings" >> >>

\* str.capitalize() on the header names that occur.
capitalize(key) ==
    CASE key \in {"Content-Type", "content-type"} -> "Content-type"
      [] key = "User-Agent" -> "User-agent"
      [] key \in {"If-Match", "if-match"} -> "If-match"
      [] key = "X-Trace" -> "X-trace"
      [] OTHER -> key

\* Request(url, headers=h): add_header(key, val) for each item, which stores
\* val under key.capitalize().
RECURSIVE add_headers(_, _)
add_headers(stored, h) ==
    IF h = << >> THEN stored
    ELSE add_headers(dict_set(stored, capitalize(h[1][1]), h[1][2]), Tail(h))

\* Variant: the merged headers are written back to self.headers.
self_headers_after_in_place(self_headers, custom_headers) ==
    dict_update(self_headers, custom_headers)

\* self.headers after "request_headers = self.headers.copy();
\* request_headers.update(custom_headers)": the copy is updated, not it.
self_headers_after(self_headers, custom_headers) == self_headers

\* request_headers of request(), as the Request object stores them.
request_headers(self_headers, custom_headers) ==
    add_headers(<< >>, dict_update(self_headers, custom_headers))

\* ------------------------------------------------------ endpoint detection
\* test_patterns, by position: cmk/check_mk, {site}/check_mk, check_mk,
\* api/1.0 only, {site}/cmk/check_mk.
NumCandidates == 5

test_patterns == 1..NumCandidates

\* The candidate base URLs, in the order of test_patterns; "{server_url}" and
\* "{site}" stand for config.server_url and config.site.
PatternUrl(i) ==
    << "{server_url}" >> \o
    CASE i = 1 -> << "/", "cmk", "/", "check_mk", "/", "api", "/", "1.0" >>
      [] i = 2 -> << "/", "{site}", "/", "check_mk", "/", "api", "/", "1.0" >>
      [] i = 3 -> << "/", "check_mk", "/", "api", "/", "1.0" >>
      [] i = 4 -> << "/", "api", "/", "1.0" >>
      [] i = 5 -> << "/", "{site}", "/", "cmk", "/", "check_mk", "/", "api", "/", "1.0" >>

\* Variant: the fallback is the candidate probed last.
FallbackUrl_last == NumCandidates

\* fallback_url and the skip_url_detection URL are both the first pattern.
FallbackUrl == 1

ProbeExceptions ==
    { Exc("TimeoutError", FALSE, TRUE), Exc("URLError", FALSE, FALSE) }

ProbeOutcomes ==
    {Response(s, "json") : s \in SuccessStatuses}
    \cup {HTTPError(c) : c \in {404, 503}}
    \cup {Raised(e) : e \in ProbeExceptions}

Entry(tag, cand, code) == [tag |-> tag, cand |-> cand, code |-> code]

\* "if response.status == 200"
ProbeSucceeds(o) == o.kind = "response" /\ o.status = 200

\* Variant: a successful probe returns the first pattern, not the one probed.
SelectedUrl_first(base_url) == 1

\* "return base_url" of the successful probe.
SelectedUrl(base_url) == base_url

\* Variant: only HTTPError is caught around a probe.
ProbeCaught_http_only(o) == o.kind = "http_error"

\* "except urllib.error.HTTPError" and "except Exception" around each probe.
ProbeCaught(o) ==
    \/ o.kind = "http_error"
    \/ o.kind = "raised" /\ IsInstance(o.exc.cls, "Exception")

\* Variant: the "Testing:" line is not recorded.
ProbeEntries_outcome_only(base_url, o) ==
    << IF o.kind = "response" /\ o.status = 200 THEN Entry("SUCCESS", base_url, 0)
       ELSE IF o.kind = "response" THEN Entry("HTTP", base_url, o.status)
       ELSE IF o.kind = "http_error" THEN Entry("HTTP (reason)", base_url, o.status)
       ELSE Entry("ERROR", base_url, 0) >>

\* The entries one loop iteration appends for candidate base_url.
ProbeEntries(base_url, o) ==
    << Entry("Testing", base_url, 0),
       IF ProbeSucceeds(o) THEN Entry("SUCCESS", base_url, 0)
       ELSE IF o.kind = "response" THEN Entry("HTTP", base_url, o.status)
       ELSE IF o.kind = "http_error" THEN Entry("HTTP (reason)", base_url, o.status)
       ELSE Entry("ERROR", base_url, 0) >>

\* After the loop: self._debug_results is bound to the list, and FALLBACK is
\* appended to that same list afterwards.
FallbackEntries == << Entry("FALLBACK", FallbackUrl, 0) >>

NoDebugInfo == << Entry("No debug info available", 0, 0) >>

\* ------------------------------------------------------------------- state
\* ------------------------------------------------------ the configuration
\* server_url is a sequence of symbols: the scheme words "http:" and
\* "https:", the slash, and "host" for a run of other characters.
UrlSymbols == {"http:", "https:", "/", "host"}

\* Longest server_url given to the constructor, in symbols.
MaxUrlLen == 4

UrlInputs == UNION {[1..n -> UrlSymbols] : n \in 0..MaxUrlLen}

\* url.startswith(("http://", "https://"))
startswith_scheme(url) ==
    /\ Len(url) >= 3
    /\ url[1] \in {"http:", "https:"}
    /\ url[2] = "/"
    /\ url[3] = "/"

\* url.rstrip("/"): every trailing slash is removed.
rstrip(url) ==
    LET keep == {i \in 1..Len(url) : url[i] # "/"}
        last == IF keep = {} THEN 0 ELSE CHOOSE i \in keep : \A j \in keep : j <= i
    IN  SubSeq(url, 1, last)

\* len(url) > 1, in characters: of the symbols only "/" is one character long.
LongerThanOne(url) == Len(url) > 1 \/ (Len(url) = 1 /\ url[1] # "/")

\* CheckMKConfig._normalize_url
_normalize_url(url) ==
    IF url = << >>
    THEN url
    ELSE LET with_scheme == IF startswith_scheme(url) THEN url
                            ELSE << "http:", "/", "/" >> \o url
         IN  IF with_scheme[Len(with_scheme)] = "/" /\ LongerThanOne(with_scheme)
             THEN rstrip(with_scheme)
             ELSE with_scheme

\* ------------------------------------------------------- the MCP server
\* handle_request coroutines alive at the same time.
MaxTasks == 2

Tasks == 1..MaxTasks

\* A JSON-RPC request: "None" stands for a missing member, "null" for a JSON
\* null; name is params["name"] and arguments is params["arguments"].
Request(id, method, params, name, arguments) ==
    [id |-> id, method |-> method, params |-> params, name |-> name,
     arguments |-> arguments]

\* Tools with a handler in self.handlers; the first makes one client call,
\* the second awaits asyncio.sleep between two client calls.
HandledTools == {"vibemk_list_downtimes", "vibemk_schedule_host_downtime"}

\* remaining_tools: names entered in self.handlers with the value None.
remaining_tools == {"vibemk_test_notification"}

\* self.handlers.get(tool_name)
handlers_get(tool_name) == IF tool_name \in HandledTools THEN "handler" ELSE "None"

\* _verify_downtime_creation awaits asyncio.sleep(5) between its attempts.
Suspends(tool_name) == tool_name = "vibemk_schedule_host_downtime"

\* The requests sent, with the id the sender gave them.
RequestInputs(id) ==
    { Request(id, "initialize", "object", "None", "None"),
      Request("None", "notifications/initialized", "None", "None", "None"),
      Request(id, "tools/list", "None", "None", "None"),
      Request(id, "tools/call", "object", "vibemk_list_downtimes", "{}"),
      Request(id, "tools/call", "object", "vibemk_list_downtimes", "null"),
      Request(id, "tools/call", "object", "vibemk_schedule_host_downtime", "{}"),
      Request(id, "tools/call", "object", "vibemk_test_notification", "{}"),
      Request(id, "tools/call", "object", "invalid_tool_name", "{}"),
      Request(id, "tools/call", "null", "None", "None"),
      Request(id, "None", "None", "None", "None"),
      Request(id, "unknown/method", "None", "None", "None") }

\* The id the sender of coroutine t uses.
TaskId(t) == IF t = 1 THEN "test-0" ELSE IF t = 2 THEN "test-1" ELSE "test-2"

NoRequest == Request("None", "None", "None", "None", "None")

RpcResponse(id, kind, code, what) ==
    [id |-> id, kind |-> kind, code |-> code, what |-> what]

\* handle_request returned None: nothing is written to stdout.
NoResponse == RpcResponse("None", "none", 0, "-")

\* {"jsonrpc": "2.0", "id": request_id, "result": ...}
result_response(request_id, what) == RpcResponse(request_id, "result", 0, what)

\* CheckMKMCPServer._error_response
_error_response(request_id, code) == RpcResponse(request_id, "error", code, "-")

NoTask ==
    [stage |-> "free", request |-> NoRequest, response |-> NoResponse, calls_at |-> 0,
     slept |-> FALSE]

\* params.get(...) and len(arguments) raise on a JSON null: AttributeError in
\* _handle_initialize and _handle_tools_call, TypeError in the logger call
\* that precedes _ensure_initialized.
RaisesEarly(r) ==
    \/ r.method \in {"initialize", "tools/call"} /\ r.params = "null"
    \/ r.method = "tools/call" /\ r.arguments = "null"

\* Variant: _ensure_initialized has no early return.
needs_init_always(initialized) == TRUE

\* "if self._initialized: return"
needs_init(initialized) == ~initialized

VARIABLES
    config,          \* CheckMKConfig: [max_retries, timeout]
    client_state,    \* "new", "detecting", "ready", "construct_failed"
    probe_idx,       \* position in test_patterns of the next candidate probed
    api_base_url,    \* position in test_patterns of self.api_base_url, 0 = unset
    debug_results,   \* the list debug_results of _detect_api_url
    debug_attr,      \* TRUE once self._debug_results is bound to that list
    probe_log,       \* outcome of each probe request sent, in order
    call_state,      \* "idle", "attempting", "success", "failed"
    method,          \* verb of the logical call in flight
    retry_count,     \* retry_count argument of the current attempt
    wire_requests,   \* urlopen calls made by the current logical call
    outcomes,        \* outcome of each of them, in order
    slept,           \* time.sleep() arguments of the current logical call
    result,          \* what the logical call returned or raised
    calls_made,      \* logical calls started on this client
    caller,          \* handler coroutine that made the logical call in flight
    req,             \* its arguments: [endpoint, data, params, custom_headers,
                     \* use_api_prefix]
    wire_log,        \* the urllib Request of each urlopen call it made
    elapsed,         \* time it has spent in urlopen and time.sleep
    headers,         \* self.headers of the client
    prev_custom,     \* custom_headers of the logical call before this one
    server_url,      \* config.server_url, a string of URL symbols
    config_state,    \* "assigned" (fields set, __post_init__ not run yet),
                     \* "valid", "rejected" (__post_init__ raised ValueError)
    _initialized,    \* CheckMKMCPServer._initialized
    server,          \* its attributes config, client, handlers: "None" or "set"
    clients_created, \* CheckMKClient objects the server has constructed
    tasks,           \* the handle_request coroutines: [stage, request, response,
                     \* calls_at, slept]
    running          \* the coroutine the event loop is executing, 0 = none

client_vars == << client_state, probe_idx, api_base_url, debug_results, debug_attr, probe_log >>

call_vars ==
    << call_state, method, retry_count, wire_requests, outcomes, slept, result,
       caller, req, wire_log, elapsed >>

header_vars == << headers, prev_custom >>

config_vars == << server_url, config_state >>

server_vars == << _initialized, server, clients_created, tasks, running >>

vars ==
    << config, client_vars, call_vars, calls_made, header_vars, config_vars, server_vars >>

\* request(endpoint) with every other argument at its default.
DefaultReq ==
    [endpoint |-> << "version" >>, data |-> "None", params |-> << >>,
     custom_headers |-> << >>, use_api_prefix |-> TRUE]

\* Before CheckMKClient(config, ...) runs; the configuration is already valid.
InitWith(timeouts) ==
    /\ config \in [max_retries : MaxRetriesValues, timeout : timeouts]
    /\ client_state = "new"
    /\ probe_idx = 0
    /\ api_base_url = 0
    /\ debug_results = << >>
    /\ debug_attr = FALSE
    /\ probe_log = << >>
    /\ call_state = "idle"
    /\ method = "-"
    /\ retry_count = 0
    /\ wire_requests = 0
    /\ outcomes = << >>
    /\ slept = << >>
    /\ result = NoDecision
    /\ calls_made = 0
    /\ caller = "-"
    /\ req = DefaultReq
    /\ wire_log = << >>
    /\ elapsed = 0
    /\ headers = << >>
    /\ prev_custom = << >>
    /\ server_url = << "http:", "/", "/", "host" >>
    /\ config_state = "valid"
    /\ _initialized = FALSE
    /\ server = [config |-> "None", client |-> "None", handlers |-> "None"]
    /\ clients_created = 0
    /\ tasks = [t \in Tasks |-> NoTask]
    /\ running = 0

\* The configuration keeps the default timeout.
Init == InitWith({DefaultTimeout})

\* get_debug_results(): getattr(self, "_debug_results", [...]).
get_debug_results == IF debug_attr THEN debug_results ELSE NoDebugInfo

\* ------------------------------------------------------------ construction
\* Variant: a candidate that answered with a retryable status is probed again.
NextCandidate_retry(idx, o) ==
    IF o.kind = "http_error" /\ o.status \in RetryableCodes THEN idx ELSE idx + 1

\* "for base_url in test_patterns": whatever the probe's outcome, the loop
\* moves on to the next pattern.
NextCandidate(idx, o) == idx + 1

\* CheckMKClient.__init__ up to the first probe.
ClientInit(skip_url_detection) ==
    /\ client_state = "new"
    /\ IF skip_url_detection
       THEN /\ api_base_url' = FallbackUrl
            /\ client_state' = "ready"
            /\ probe_idx' = probe_idx
       ELSE /\ api_base_url' = api_base_url
            /\ client_state' = "detecting"
            /\ probe_idx' = 1
    /\ headers' = DefaultHeaders
    /\ UNCHANGED << config, debug_results, debug_attr, probe_log, call_vars, calls_made,
                    prev_custom, config_vars, server_vars >>

\* One iteration of the loop of _detect_api_url, with what follows the loop
\* when it was the last one.
DetectProbe(o) ==
    /\ client_state = "detecting"
    /\ probe_log' = Append(probe_log, o)
    /\ IF o.kind # "response" /\ ~ProbeCaught(o)
       THEN /\ client_state' = "construct_failed"
            /\ debug_results' = Append(debug_results, Entry("Testing", probe_idx, 0))
            /\ UNCHANGED << probe_idx, api_base_url, debug_attr >>
       ELSE IF ProbeSucceeds(o)
       THEN /\ debug_results' = debug_results \o ProbeEntries(probe_idx, o)
            /\ debug_attr' = TRUE
            /\ api_base_url' = SelectedUrl(probe_idx)
            /\ client_state' = "ready"
            /\ probe_idx' = probe_idx
       ELSE IF probe_idx < NumCandidates
       THEN /\ debug_results' = debug_results \o ProbeEntries(probe_idx, o)
            /\ probe_idx' = NextCandidate(probe_idx, o)
            /\ UNCHANGED << api_base_url, debug_attr, client_state >>
       ELSE /\ debug_results' = (debug_results \o ProbeEntries(probe_idx, o)) \o FallbackEntries
            /\ debug_attr' = TRUE
            /\ api_base_url' = FallbackUrl
            /\ client_state' = "ready"
            /\ probe_idx' = probe_idx
    /\ UNCHANGED << config, call_vars, calls_made, header_vars, config_vars, server_vars >>

\* ------------------------------------------------------------ logical calls
\* Variant: the non-API branch also starts from the detected base URL.
build_url_detected_only(base, r) ==
    with_params(PatternUrl(base) \o << "/" >> \o r.endpoint, r.params)

\* The url of request(): prefix, endpoint and encoded params.
build_url(base, r) ==
    with_params((IF r.use_api_prefix
                 THEN PatternUrl(base) \o << "/" >>
                 ELSE << "{server_url}", "/", "cmk", "/" >>) \o r.endpoint,
                r.params)

\* request_data: "if method in [POST, PUT, PATCH] and data:"; the empty dict
\* is falsy.
request_body(m, data) ==
    IF m \in {"POST", "PUT", "PATCH"} /\ data \notin {"None", "{}"} THEN data ELSE "None"

\* urllib.request.Request(url, data=request_data, headers=..., method=method)
WireRequest(m, base, r, self_headers) ==
    [method |-> m, url |-> build_url(base, r), body |-> request_body(m, r.data),
     headers |-> request_headers(self_headers, r.custom_headers)]

\* A handler coroutine c calls get / post / put / delete / patch: request() is
\* entered with retry_count = 0.  The handlers call the client synchronously
\* and the server awaits one handler at a time, so a call starts only when no
\* other call is in flight.
Call(c, m, r) ==
    /\ client_state = "ready"
    /\ call_state \in {"idle", "success", "failed"}
    /\ calls_made < MaxCalls
    /\ calls_made' = calls_made + 1
    /\ call_state' = "attempting"
    /\ caller' = c
    /\ method' = m
    /\ req' = r
    /\ retry_count' = 0
    /\ wire_requests' = 0
    /\ outcomes' = << >>
    /\ wire_log' = << >>
    /\ slept' = << >>
    /\ elapsed' = 0
    /\ result' = NoDecision
    /\ prev_custom' = req.custom_headers
    /\ UNCHANGED << config, client_vars, headers, config_vars, server_vars >>

\* Variant: the recursive call leaves use_api_prefix at its default.
retry_args_default_prefix(r) ==
    [endpoint |-> r.endpoint, data |-> r.data, params |-> r.params,
     custom_headers |-> r.custom_headers, use_api_prefix |-> TRUE]

\* The arguments of the recursive call self.request(endpoint, method, data,
\* params, custom_headers, retry_count + 1, use_api_prefix).
retry_args(r) ==
    [endpoint |-> r.endpoint, data |-> r.data, params |-> r.params,
     custom_headers |-> r.custom_headers, use_api_prefix |-> r.use_api_prefix]

\* What one execution of request() does to the logical call: the wire
\* request, its outcome o after dur time units in urlopen, and the handler
\* that decides between returning, raising and sleeping before the recursive
\* call.
RequestSteps(o, dur) ==
    /\ call_state = "attempting"
    /\ IF url_params_raise(req.params)
       THEN /\ call_state' = "failed"
            /\ result' = Escape("UnicodeEncodeError")
            /\ UNCHANGED << wire_requests, wire_log, outcomes, slept, elapsed, retry_count,
                            req >>
       ELSE LET d == request(o, retry_count, config.max_retries) IN
            /\ wire_requests' = wire_requests + 1
            /\ wire_log' = Append(wire_log, WireRequest(method, api_base_url, req, headers))
            /\ outcomes' = Append(outcomes, o)
            /\ IF d.do = "retry"
               THEN /\ slept' = Append(slept, d.sleep)
                    /\ elapsed' = elapsed + dur + d.sleep
                    /\ retry_count' = retry_count + 1
                    /\ req' = retry_args(req)
                    /\ UNCHANGED << call_state, result >>
               ELSE /\ call_state' = IF d.do = "return" THEN "success" ELSE "failed"
                    /\ result' = d
                    /\ elapsed' = elapsed + dur
                    /\ UNCHANGED << slept, retry_count, req >>
    /\ headers' = IF url_params_raise(req.params) THEN headers
                  ELSE self_headers_after(headers, req.custom_headers)
    /\ UNCHANGED << method, calls_made, caller, prev_custom, config_vars, server_vars >>

\* Variant: a 404 answer makes the client fall back to the first candidate.
Attempt_redetect(o, dur) ==
    /\ RequestSteps(o, dur)
    /\ api_base_url' = IF o.kind = "http_error" /\ o.status = 404
                       THEN FallbackUrl ELSE api_base_url
    /\ UNCHANGED << config, client_state, probe_idx, debug_results, debug_attr, probe_log >>

\* One execution of request(); it reads self.api_base_url and self.config and
\* assigns no attribute of the client.
Attempt(o, dur) ==
    /\ RequestSteps(o, dur)
    /\ UNCHANGED << config, client_vars >>

\* ----------------------------------------------------------- request inputs
HostEndpoint == << "objects", "/", "host", "/", "h1" >>

\* A Livestatus-style filter as the handlers build them.
HostFilter ==
    Dict(<< << << "op" >>, Str(<< "=" >>) >>,
            << << "left" >>, Str(<< "name" >>) >>,
            << << "right" >>, Str(<< "h", " ", "1" >>) >> >>)

\* A nested filter whose strings hold a quote and a backslash.
NestedFilter ==
    Dict(<< << << "op" >>, Str(<< "and" >>) >>,
            << << "expr" >>,
               List(<< Dict(<< << << "left" >>, Str(<< "a", "\"", "b" >>) >>,
                               << << "right" >>, Str(<< "c", "\\", "d" >>) >> >>),
                       Str(<< "x", "&", "y" >>) >>) >> >>)

ParamsInputs ==
    { << >>,
      << << << "columns" >>, List(<< Str(<< "state" >>), Str(<< "plugin_output" >>) >>) >> >>,
      << << << "columns" >>, List(<< Str(<< "a", ",", "b" >>), Str(<< "c", "&", "d", "=", "e" >>) >>) >> >>,
      << << << "columns" >>, List(<< >>) >> >>,
      << << << "columns" >>, Str(<< "state" >>) >> >>,
      << << << "host_name" >>, Str(<< "h1" >>) >>,
         << << "columns" >>, List(<< Str(<< "state" >>) >>) >> >>,
      << << << "query" >>, HostFilter >> >>,
      << << << "query" >>, NestedFilter >>, << << "site_id" >>, Str(<< "prod" >>) >> >>,
      << << << "query" >>, Dict(<< >>) >> >>,
      << << << "query" >>, Str(json_dumps(HostFilter)) >> >>,
      << << << "sites" >>, List(<< Str(<< "a" >>), Str(<< "b" >>) >>) >> >>,
      << << << "host_name" >>, Str(<< LoneSurrogate >>) >> >> }

\* data: None, the empty dict, a non-empty JSON-serialisable dict.
DataInputs == {"None", "{}", "json"}

\* Reads with params, as the handlers make them.
ParamRequests ==
    {[endpoint |-> HostEndpoint, data |-> "None", params |-> ps, custom_headers |-> << >>,
      use_api_prefix |-> TRUE] : ps \in ParamsInputs}

\* Requests with and without data, inside and outside the REST API prefix.
DataRequests ==
    {[endpoint |-> e, data |-> d, params |-> << >>, custom_headers |-> << >>,
      use_api_prefix |-> b] :
        e \in {<< "version" >>, << "view.py" >>}, d \in DataInputs, b \in BOOLEAN}

\* custom_headers: None, a precondition header, a default key replaced, a
\* default key in another spelling next to a new key.
CustomHeaderInputs ==
    { << >>,
      << << "If-Match", "etag" >> >>,
      << << "Content-Type", "text/plain" >> >>,
      << << "content-type", "text/csv" >>, << "X-Trace", "on" >> >> }

\* Updates that carry extra headers.
HeaderRequests ==
    {[endpoint |-> HostEndpoint, data |-> "json", params |-> << >>, custom_headers |-> h,
      use_api_prefix |-> TRUE] : h \in CustomHeaderInputs}

\* The calls made: << handler coroutine, verb, arguments >>.
CallInputs ==
    {<< "A", "GET", r >> : r \in ParamRequests}
    \cup {<< "A", "PUT", r >> : r \in HeaderRequests}
    \cup {<< "A", m, r >> : m \in Methods, r \in DataRequests}
    \cup {<< "B", m, DefaultReq >> : m \in {"GET", "POST"}}

\* client.get(endpoint) and its siblings with default arguments.
StartCall(m) == Call("A", m, DefaultReq)

\* An attempt against a server that answers at once.
RequestAttempt(o) == Attempt(o, 0)

\* ------------------------------------------------- building a configuration
\* The dataclass __init__ has assigned the fields from its arguments and
\* __post_init__ has not run yet; site, username and password are given.
InitConfig ==
    /\ config \in [max_retries : {-1} \cup MaxRetriesValues, timeout : {0} \cup TimeoutValues]
    /\ server_url \in UrlInputs
    /\ config_state = "assigned"
    /\ client_state = "new"
    /\ probe_idx = 0
    /\ api_base_url = 0
    /\ debug_results = << >>
    /\ debug_attr = FALSE
    /\ probe_log = << >>
    /\ call_state = "idle"
    /\ method = "-"
    /\ retry_count = 0
    /\ wire_requests = 0
    /\ outcomes = << >>
    /\ slept = << >>
    /\ result = NoDecision
    /\ calls_made = 0
    /\ caller = "-"
    /\ req = DefaultReq
    /\ wire_log = << >>
    /\ elapsed = 0
    /\ headers = << >>
    /\ prev_custom = << >>
    /\ _initialized = FALSE
    /\ server = [config |-> "None", client |-> "None", handlers |-> "None"]
    /\ clients_created = 0
    /\ tasks = [t \in Tasks |-> NoTask]
    /\ running = 0

\* CheckMKConfig.__post_init__: the required-field and numeric checks raise
\* ValueError; otherwise server_url is replaced by its normal form.
post_init ==
    /\ config_state = "assigned"
    /\ IF server_url = << >> \/ config.timeout <= 0 \/ config.max_retries < 0
       THEN /\ config_state' = "rejected"
            /\ server_url' = server_url
       ELSE /\ config_state' = "valid"
            /\ server_url' = _normalize_url(server_url)
    /\ UNCHANGED << config, client_vars, call_vars, calls_made, header_vars, server_vars >>

\* ------------------------------------------------------ serving requests
\* asyncio.gather / the loop of run() creates the coroutine
\* handle_request(r) in slot t.
Submit(t, r) ==
    /\ tasks[t].stage = "free"
    /\ tasks' = [tasks EXCEPT ![t] = [NoTask EXCEPT !.stage = "pending", !.request = r]]
    /\ UNCHANGED << config, client_vars, call_vars, calls_made, header_vars, config_vars,
                    _initialized, server, clients_created, running >>

\* The coroutine in slot t ends with the given return value.
Answered(t, response) == [tasks[t] EXCEPT !.stage = "done", !.response = response]

\* What handle_request returns without reaching _ensure_initialized:
\* initialize, notifications/initialized, tools/list, the final else branch,
\* and the "except Exception" around them.
static_response(r) ==
    IF RaisesEarly(r) THEN _error_response(r.id, -32603)
    ELSE IF r.method = "initialize" THEN result_response(r.id, "initialize")
    ELSE IF r.method = "notifications/initialized" THEN NoResponse
    ELSE IF r.method = "tools/list" THEN result_response(r.id, "tools")
    ELSE _error_response(r.id, -32601)

\* _handle_tools_call from "handler = self.handlers.get(tool_name)" on: a
\* missing handler is answered at once, otherwise handler.handle starts.
Dispatched(t) ==
    IF handlers_get(tasks[t].request.name) = "None"
    THEN Answered(t, result_response(tasks[t].request.id, "not_implemented"))
    ELSE [tasks[t] EXCEPT !.stage = "handling", !.calls_at = calls_made]

\* The event loop starts the coroutine in slot t: handle_request up to its
\* return, or up to the construction of the client, or up to the first
\* client call of the handler.  from_env succeeds or raises ValueError
\* depending on the environment at that moment.
HandleRequest(t, env_ok) ==
    /\ running = 0
    /\ tasks[t].stage = "pending"
    /\ LET r == tasks[t].request IN
       IF r.method # "tools/call" \/ RaisesEarly(r)
       THEN /\ tasks' = [tasks EXCEPT ![t] = Answered(t, static_response(r))]
            /\ UNCHANGED << client_vars, headers, server, running >>
       ELSE IF ~needs_init(_initialized)
       THEN /\ tasks' = [tasks EXCEPT ![t] = Dispatched(t)]
            /\ running' = IF handlers_get(r.name) = "None" THEN 0 ELSE t
            /\ UNCHANGED << client_vars, headers, server >>
       ELSE IF ~env_ok
       THEN /\ tasks' = [tasks EXCEPT ![t] = Answered(t, result_response(r.id, "config_error"))]
            /\ UNCHANGED << client_vars, headers, server, running >>
       ELSE /\ server' = [server EXCEPT !.config = "set"]
            /\ tasks' = [tasks EXCEPT ![t].stage = "init"]
            /\ running' = t
            /\ client_state' = "new"
            /\ probe_idx' = 0
            /\ api_base_url' = 0
            /\ debug_results' = << >>
            /\ debug_attr' = FALSE
            /\ probe_log' = << >>
            /\ headers' = << >>
    /\ UNCHANGED << config, call_vars, calls_made, prev_custom, config_vars, _initialized,
                    clients_created >>

\* CheckMKClient(self.config) inside _ensure_initialized.
CreateClient ==
    /\ running # 0
    /\ tasks[running].stage = "init"
    /\ ClientInit(FALSE)

ServerProbeOutcomes == {Response(200, "json"), HTTPError(404)}

InitProbe(o) ==
    /\ running # 0
    /\ tasks[running].stage = "init"
    /\ DetectProbe(o)

\* The rest of _ensure_initialized once the client is built: self.client,
\* _setup_handlers(), _initialized = True; then the handler lookup.
FinishInit(t) ==
    /\ running = t
    /\ tasks[t].stage = "init"
    /\ client_state = "ready"
    /\ server' = [server EXCEPT !.client = "set", !.handlers = "set"]
    /\ _initialized' = TRUE
    /\ clients_created' = clients_created + 1
    /\ tasks' = [tasks EXCEPT ![t] = Dispatched(t)]
    /\ running' = IF handlers_get(tasks[t].request.name) = "None" THEN 0 ELSE t
    /\ UNCHANGED << config, client_vars, call_vars, calls_made, header_vars, config_vars >>

\* The handler calls self.client.get(...).
HandlerCall(t) ==
    /\ running = t
    /\ tasks[t].stage = "handling"
    /\ calls_made = tasks[t].calls_at
    /\ Call("A", "GET", DefaultReq)

ServerOutcomes == {Response(200, "json"), HTTPError(503)}

HandlerAttempt(o) ==
    /\ running # 0
    /\ tasks[running].stage = "handling"
    /\ Attempt(o, 0)

\* The client call has returned or raised (the handler catches what it
\* raises): the handler awaits asyncio.sleep, or returns its content and
\* _handle_tools_call wraps it in a result.
HandlerReturn(t) ==
    /\ running = t
    /\ tasks[t].stage = "handling"
    /\ calls_made > tasks[t].calls_at
    /\ call_state \in {"success", "failed"}
    /\ tasks' = [tasks EXCEPT ![t] =
                    IF Suspends(tasks[t].request.name) /\ ~tasks[t].slept
                    THEN [tasks[t] EXCEPT !.stage = "suspended", !.slept = TRUE]
                    ELSE Answered(t, result_response(tasks[t].request.id, "content"))]
    /\ running' = 0
    /\ UNCHANGED << config, client_vars, call_vars, calls_made, header_vars, config_vars,
                    _initialized, server, clients_created >>

\* asyncio.sleep is over and the event loop resumes the handler, which goes
\* on to its next client call.
Resume(t) ==
    /\ running = 0
    /\ tasks[t].stage = "suspended"
    /\ tasks' = [tasks EXCEPT ![t] = [tasks[t] EXCEPT !.stage = "handling",
                                                     !.calls_at = calls_made]]
    /\ running' = t
    /\ UNCHANGED << config, client_vars, call_vars, calls_made, header_vars, config_vars,
                    _initialized, server, clients_created >>

\* ----------------------------------------------------------- specifications
\* The server with up to MaxTasks requests in flight.
NextServer ==
    \/ \E t \in Tasks : \E r \in RequestInputs(TaskId(t)) : Submit(t, r)
    \/ \E t \in Tasks : \E env_ok \in BOOLEAN : HandleRequest(t, env_ok)
    \/ CreateClient
    \/ \E o \in ServerProbeOutcomes : InitProbe(o)
    \/ \E t \in Tasks : FinishInit(t)
    \/ \E t \in Tasks : HandlerCall(t)
    \/ \E o \in ServerOutcomes : HandlerAttempt(o)
    \/ \E t \in Tasks : HandlerReturn(t)
    \/ \E t \in Tasks : Resume(t)

InitServer ==
    /\ Init
    /\ config.max_retries \in {0, 1}

SpecServer == InitServer /\ [][NextServer]_vars

\* Construction of a configuration from every server_url up to MaxUrlLen.
NextConfig == post_init

SpecConfig == InitConfig /\ [][NextConfig]_vars

\* Construction with endpoint detection.
NextDetect ==
    \/ \E skip \in BOOLEAN : ClientInit(skip)
    \/ \E o \in ProbeOutcomes : DetectProbe(o)

SpecDetect == Init /\ [][NextDetect]_vars

\* Logical calls on a client built with skip_url_detection.
NextCall ==
    \/ ClientInit(TRUE)
    \/ \E m \in Methods : StartCall(m)
    \/ \E o \in CallOutcomes : RequestAttempt(o)

SpecCall == Init /\ [][NextCall]_vars

\* request() is synchronous: once entered, urlopen returns or raises within
\* the timeout, the handler runs, and time.sleep returns, so an attempt in
\* flight is always followed by its outcome.
SpecCallFair == SpecCall /\ WF_vars(\E o \in CallOutcomes : RequestAttempt(o))

\* Construction followed by calls with arguments, from two handler coroutines.
WireProbeOutcomes == {Response(200, "json"), HTTPError(404)}

WireOutcomes == {Response(200, "json"), HTTPError(503), HTTPError(404)}

NextWire ==
    \/ \E skip \in BOOLEAN : ClientInit(skip)
    \/ \E o \in WireProbeOutcomes : DetectProbe(o)
    \/ \E call \in CallInputs : Call(call[1], call[2], call[3])
    \/ \E o \in WireOutcomes : Attempt(o, 0)

SpecWire == Init /\ [][NextWire]_vars

\* Calls whose attempts take time: urlopen(..., timeout=config.timeout) ends
\* within the configured timeout, with a response or with an error.
TimedOutcomes ==
    {Response(200, "json"), HTTPError(503), Raised(Exc("TimeoutError", TRUE, TRUE)),
     Raised(Exc("OSError", FALSE, FALSE))}

NextTime ==
    \/ ClientInit(TRUE)
    \/ \E m \in {"GET", "POST"} : Call("A", m, DefaultReq)
    \/ \E o \in TimedOutcomes : \E dur \in 0..config.timeout : Attempt(o, dur)

SpecTime == InitWith(TimeoutValues) /\ [][NextTime]_vars

\* Calls that fail, with the bodies the error responses can have.
ErrorOutcomes ==
    {HTTPErrorBody(c, b) : c \in {401, 404, 500, 503}, b \in ErrorBodies}
    \cup {Response(200, b) : b \in Bodies}
    \cup {Raised(Exc("TimeoutError", TRUE, TRUE)), Raised(Exc("URLError", FALSE, FALSE)),
          Raised(Exc("OSError", FALSE, FALSE))}

NextError ==
    \/ ClientInit(TRUE)
    \/ \E m \in {"GET", "POST"} : Call("A", m, DefaultReq)
    \/ \E o \in ErrorOutcomes : Attempt(o, 0)

SpecError == Init /\ [][NextError]_vars

\* ================================================================== claims
Last(seq) == seq[Len(seq)]

\* The current logical call has made at least one wire request.
Attempted == outcomes # << >>

Is503(o) == o.kind = "http_error" /\ o.status = 503

IsGood200(o) == o.kind = "response" /\ o.status = 200 /\ o.body \in {"empty", "json"}

Is200(o) == o.kind = "response" /\ o.status = 200

IsTimeout(o) == o.kind = "raised" /\ o.exc.is_timeout

AllBefore503(k) == \A i \in 1..(k - 1) : Is503(outcomes[i])

No200Probed == \A i \in 1..Len(probe_log) : ~Is200(probe_log[i])

ConstructionEnded == client_state \in {"ready", "construct_failed"}

\* C1: with maxRetries = N, a call answered by 503s only is still attempting
\* after each of the first N of them; N 503s followed by a 200 give success
\* after exactly N+1 wire requests; N+1 503s give CheckMKAPIError after
\* exactly N+1 wire requests.
C1_Retry503 ==
    LET N == config.max_retries
        k == Len(outcomes)
    IN  (Attempted /\ AllBefore503(k)) =>
            /\ k <= N + 1
            /\ wire_requests = k
            /\ (Is503(Last(outcomes)) /\ k <= N) =>
                   call_state = "attempting" /\ retry_count = k
            /\ (Is503(Last(outcomes)) /\ k = N + 1) =>
                   /\ call_state = "failed"
                   /\ result.cls = "CheckMKAPIError"
                   /\ result.status_code = 503
            /\ (IsGood200(Last(outcomes)) /\ k = N + 1) =>
                   call_state = "success" /\ result.do = "return"

C1_Witness ==
    /\ config.max_retries >= 2
    /\ Len(outcomes) = config.max_retries + 1
    /\ AllBefore503(Len(outcomes))
    /\ IsGood200(Last(outcomes))
    /\ call_state = "success"
    /\ wire_requests = config.max_retries + 1

\* A transport error that is not a timeout and not the mocks' StopIteration.
IsTransportError(o) ==
    /\ o.kind = "raised"
    /\ ~o.exc.is_timeout
    /\ o.exc.cls \in {"URLError", "OSError"}

RetriedOrConnectionError ==
    IF Len(outcomes) <= config.max_retries
    THEN /\ call_state = "attempting"
         /\ retry_count = Len(outcomes)
         /\ slept # << >> /\ Last(slept) = Pow2(Len(outcomes) - 1)
    ELSE /\ call_state = "failed"
         /\ result.cls = "CheckMKConnectionError"

\* C2 as stated: every non-timeout transport error (DNS failure, connection
\* refused, generic socket error) at attempt n is retried while n < maxRetries
\* and ends in ConnectionError only at n = maxRetries.
C2_Original ==
    (Attempted /\ IsTransportError(Last(outcomes))) => RetriedOrConnectionError

\* C2 amended: a URLError (DNS failure, connection refused) ends the call at
\* once with ConnectionError on whichever attempt it arrives; any other
\* non-timeout socket error is retried after the backoff delay while
\* n < maxRetries and ends in ConnectionError at n = maxRetries.
C2_TransportErrors ==
    Attempted =>
        /\ (IsTransportError(Last(outcomes)) /\ Last(outcomes).exc.cls = "URLError") =>
               /\ call_state = "failed"
               /\ result.cls = "CheckMKConnectionError"
        /\ (IsTransportError(Last(outcomes)) /\ Last(outcomes).exc.cls = "OSError") =>
               RetriedOrConnectionError

C2_Witness ==
    /\ config.max_retries >= 2
    /\ Len(outcomes) = 2
    /\ IsTransportError(outcomes[1]) /\ outcomes[1].exc.cls = "OSError"
    /\ IsTransportError(outcomes[2]) /\ outcomes[2].exc.cls = "OSError"
    /\ call_state = "attempting"
    /\ slept = << 1, 2 >>

\* C3: a transport timeout on any attempt ends the call at once with
\* ConnectionError, whatever maxRetries is; on the first attempt exactly one
\* wire request was made.
C3_TimeoutNeverRetried ==
    (Attempted /\ IsTimeout(Last(outcomes))) =>
        /\ call_state = "failed"
        /\ result.cls = "CheckMKConnectionError"
        /\ wire_requests = Len(outcomes)
        /\ Len(slept) = Len(outcomes) - 1

C3_Witness ==
    /\ config.max_retries >= 1
    /\ Len(outcomes) = 1
    /\ IsTimeout(outcomes[1])
    /\ outcomes[1].exc.cls = "TimeoutError" /\ ~outcomes[1].exc.msg_timeout
    /\ call_state = "failed"
    /\ wire_requests = 1

\* C4: the candidate selected is the first, in list order, whose probe
\* answered HTTP 200: as soon as some probe has answered 200, construction
\* has ended with that candidate (the lowest index with outcome 200) as the
\* base URL.
C4_FirstOkSelected ==
    \A i \in 1..Len(probe_log) :
        (Is200(probe_log[i]) /\ \A j \in 1..(i - 1) : ~Is200(probe_log[j])) =>
            /\ client_state = "ready"
            /\ api_base_url = i
            /\ Len(probe_log) = i

C4_Witness ==
    /\ client_state = "ready"
    /\ api_base_url = 4
    /\ probe_log[1].kind = "response" /\ probe_log[1].status = 204
    /\ probe_log[2].kind = "http_error"
    /\ probe_log[3].kind = "raised"
    /\ Is200(probe_log[4])

AllProbesTimedOut ==
    /\ probe_log # << >>
    /\ \A i \in 1..Len(probe_log) : IsTimeout(probe_log[i])

C7_Original ==
    debug_attr => Len(get_debug_results) = Len(probe_log)

\* C7 amended: the trace has two entries per candidate probed, a "Testing"
\* line followed by the line of its outcome, and ends with one FALLBACK line
\* when no candidate answered 200: 2k entries when candidate k is the first
\* to answer 200, 2*5+1 = 11 when none does.
C7_TraceShape ==
    debug_attr =>
        /\ Len(get_debug_results) =
               IF No200Probed THEN 2 * NumCandidates + 1 ELSE 2 * Len(probe_log)
        /\ No200Probed => Len(probe_log) = NumCandidates
        /\ \A i \in 1..Len(probe_log) :
               /\ get_debug_results[2 * i - 1] = Entry("Testing", i, 0)
               /\ get_debug_results[2 * i].cand = i
               /\ get_debug_results[2 * i].tag = "SUCCESS" <=> Is200(probe_log[i])
        /\ No200Probed => Last(get_debug_results).tag = "FALLBACK"

C7_Witness ==
    /\ debug_attr
    /\ Len(probe_log) = 3
    /\ IsTimeout(probe_log[1])
    /\ probe_log[2] = HTTPError(404)
    /\ Is200(probe_log[3])
    /\ api_base_url = 3
    /\ Len(get_debug_results) = 6

C9_NonTransientTerminal ==
    ( /\ Attempted
      /\ Last(outcomes).kind = "http_error"
      /\ Last(outcomes).status \notin {500, 502, 503, 504} ) =>
        /\ call_state = "failed"
        /\ result.do = "raise"
        /\ wire_requests = Len(outcomes)
        /\ Len(slept) = Len(outcomes) - 1
        /\ Last(outcomes).status \notin {401, 403, 404} =>
               result.cls = "CheckMKAPIError"

C9_Witness ==
    /\ config.max_retries >= 1
    /\ Len(outcomes) = 1
    /\ Last(outcomes) = HTTPError(501)
    /\ call_state = "failed"
    /\ result.cls = "CheckMKAPIError"

\* C10: a 2xx response with an empty body gives a success envelope whose
\* parsed body is {}; a 2xx response whose body is not valid JSON ends the
\* call at once with CheckMKAPIError carrying the raw body.
C10_BodyDecoding ==
    (Attempted /\ Last(outcomes).kind = "response") =>
        /\ Last(outcomes).body = "empty" =>
               /\ call_state = "success"
               /\ result.do = "return"
               /\ result.data = "{}"
        /\ Last(outcomes).body \in {"bad_json", "not_utf8"} =>
               /\ call_state = "failed"
               /\ result.cls = "CheckMKAPIError"
               /\ result.data = "raw"

\* The typed errors of api/exceptions.py.
Taxonomy ==
    {"CheckMKConnectionError", "CheckMKAuthenticationError", "CheckMKPermissionError",
     "CheckMKNotFoundError", "CheckMKValidationError", "CheckMKAPIError"}

Finished == call_state \in {"success", "failed"}

IsGood2xx(o) ==
    o.kind = "response" /\ o.status \in SuccessStatuses /\ o.body \in {"empty", "json"}

\* C11: every finished logical call either returned a success envelope that
\* a 2xx response with an empty or decodable body produced, or raised one
\* member of the typed error taxonomy; no other exception type leaves
\* request().
C11_TypedOrSuccess ==
    Finished =>
        \/ /\ result.do = "return"
           /\ Attempted
           /\ IsGood2xx(Last(outcomes))
        \/ /\ result.do = "raise"
           /\ result.cls \in Taxonomy
           /\ ~(Attempted /\ IsGood2xx(Last(outcomes)))

IsRetryable5xx(o) == o.kind = "http_error" /\ o.status \in RetryableCodes

IsRetriedException(o) == o.kind = "raised" /\ ~IsTimeout(o) /\ o.exc.cls # "URLError"

\* C12: the i-th backoff sleep of a logical call lasts exactly 2^(i-1) time
\* units whatever kind of failure preceded it, one sleep is taken per retry,
\* and a call that used up all N retries slept 1, 2, ..., 2^(N-1) in order.
C12_BackoffSchedule ==
    /\ Len(slept) = retry_count
    /\ \A i \in 1..Len(slept) : slept[i] = 2 ^ (i - 1)
    /\ call_state = "attempting" => Len(slept) = Len(outcomes)
    /\ (Finished /\ Attempted) => Len(slept) = Len(outcomes) - 1
    /\ (call_state = "failed" /\ Len(outcomes) = config.max_retries + 1) =>
           slept = [i \in 1..config.max_retries |-> 2 ^ (i - 1)]

\* Two retries taken, after failures of different kinds.
C12_Witness ==
    /\ config.max_retries = 2
    /\ call_state = "failed"
    /\ slept = << 1, 2 >>
    /\ IsRetryable5xx(outcomes[1])
    /\ IsRetriedException(outcomes[2])

\* C13, as stated: the time a logical call spends in its attempts and in the
\* waits between them is at most timeout * (maxRetries + 1).
C13_Original ==
    elapsed <= config.timeout * (config.max_retries + 1)

\* C13: the time a logical call spends in its attempts and in the waits
\* between them is at most timeout * (maxRetries + 1) plus the backoff waits
\* 1 + 2 + ... + 2^(maxRetries-1) = 2^maxRetries - 1.
C13_ElapsedBound ==
    elapsed <= config.timeout * (config.max_retries + 1) + (2 ^ config.max_retries - 1)

\* The bound is met: every attempt took the whole timeout and every retry was
\* used.
C13_Witness ==
    /\ config.max_retries = 2
    /\ call_state = "failed"
    /\ Len(outcomes) = 3
    /\ elapsed = config.timeout * 3 + 3

\* Call A has slept at least once and has not finished.
WaitingBetweenAttempts(c) ==
    call_state = "attempting" /\ caller = c /\ slept # << >>

\* C14: while call A is waiting between two of its attempts, another handler
\* coroutine B can start a call of its own on the same client (and so issue
\* its wire request and complete).
C14_SleepSuspendsOnlyCaller ==
    (WaitingBetweenAttempts("A") /\ calls_made < MaxCalls) =>
        ENABLED Call("B", "GET", DefaultReq)

\* C15: once construction has ended, no step (no call, whatever its outcome
\* or number of retries) sends a probe request or changes the selected base
\* URL or the probe trace.
C15_DetectionOnce ==
    [][client_state = "ready" =>
          /\ client_state' = "ready"
          /\ api_base_url' = api_base_url
          /\ probe_log' = probe_log
          /\ debug_results' = debug_results
          /\ debug_attr' = debug_attr]_vars

\* Detection selected the third candidate, and a later call on that client
\* was retried and failed.
C15_Witness ==
    /\ client_state = "ready"
    /\ api_base_url = 3
    /\ Len(probe_log) = 3
    /\ call_state = "failed"
    /\ retry_count >= 1
    /\ result.status_code = 404

\* ---- reading a URL the way the server does
HasSymbol(string, x) == \E i \in 1..Len(string) : string[i] = x

\* The positions of x in the string.
Positions(string, x) == {i \in 1..Len(string) : string[i] = x}

Min(S) == CHOOSE m \in S : \A n \in S : m <= n

\* The part of the string after the first occurrence of sep; empty if none.
AfterFirst(string, sep) ==
    IF Positions(string, sep) = {} THEN << >>
    ELSE SubSeq(string, Min(Positions(string, sep)) + 1, Len(string))

\* The part of the string before the first occurrence of sep.
BeforeFirst(string, sep) ==
    IF Positions(string, sep) = {} THEN string
    ELSE SubSeq(string, 1, Min(Positions(string, sep)) - 1)

\* string.split(sep): piece k lies between the (k-1)-th and the k-th sep.
Split(string, sep) ==
    LET cuts == Positions(string, sep)
        cut(k) == IF k = 0 THEN 0
                  ELSE IF k = Cardinality(cuts) + 1 THEN Len(string) + 1
                  ELSE CHOOSE c \in cuts : Cardinality({d \in cuts : d < c}) = k - 1
    IN  [k \in 1..(Cardinality(cuts) + 1) |-> SubSeq(string, cut(k - 1) + 1, cut(k) - 1)]

\* The key=value pairs of the query string of a URL.
QueryPairs(url) ==
    IF HasSymbol(url, "?") THEN Split(AfterFirst(url, "?"), "&") ELSE << >>

PairKey(pair) == BeforeFirst(pair, "=")

PairValue(pair) == AfterFirst(pair, "=")

IsCode(x) == \E c \in DOMAIN PercentCodes : PercentCodes[c] = x

IsDropped(x) == x = "{dropped}"

\* Percent-decoding: a "%" followed by two hex digits becomes the character.
unquote(string) ==
    LET EscapeAt(i) == i < Len(string) /\ string[i] = "%" /\ IsCode(string[i + 1])
        decoded == [i \in 1..Len(string) |->
                       IF EscapeAt(i) THEN "{dropped}"
                       ELSE IF i > 1 /\ EscapeAt(i - 1)
                       THEN CHOOSE c \in DOMAIN PercentCodes : PercentCodes[c] = string[i]
                       ELSE string[i]]
    IN  SelectSeq(decoded, LAMBDA x : ~IsDropped(x))

IsColumnsPair(pair) == PairKey(pair) = << "columns" >>

IsQueryPair(pair) == PairKey(pair) = << "query" >>

\* C16: when params holds a list under the key columns, the query string of
\* every wire request of the call has one columns=<element> pair per list
\* element, in list order, whose value decodes to that element and holds no
\* comma; get("objects/host/h1", params={"columns": ["state",
\* "plugin_output"]}) gives a URL ending in
\* objects/host/h1?columns=state&columns=plugin_output.
C16_ColumnsRepeated ==
    \A n \in 1..Len(wire_log) :
        LET url == wire_log[n].url
            pairs == SelectSeq(QueryPairs(url), IsColumnsPair)
        IN  /\ \A k \in 1..Len(req.params) :
                   (req.params[k][1] = << "columns" >> /\ req.params[k][2].t = "list") =>
                       LET cols == req.params[k][2].v
                       IN  /\ Len(pairs) = Len(cols)
                           /\ \A j \in 1..Len(cols) :
                                  /\ unquote(PairValue(pairs[j])) = cols[j].v
                                  /\ ~HasSymbol(pairs[j], ",")
            /\ (/\ req.endpoint = << "objects", "/", "host", "/", "h1" >>
                /\ req.params = << << << "columns" >>,
                                      List(<< Str(<< "state" >>), Str(<< "plugin_output" >>) >>) >> >>)
               => AfterFirst(url, "1.0") =
                      << "/", "objects", "/", "host", "/", "h1", "?",
                         "columns", "=", "state", "&", "columns", "=", "plugin_output" >>

\* A request whose column names hold a comma, an ampersand and an equals sign
\* has been sent.
C16_Witness ==
    /\ wire_log # << >>
    /\ \E k \in 1..Len(req.params) :
           /\ req.params[k][1] = << "columns" >>
           /\ req.params[k][2].t = "list"
           /\ Len(req.params[k][2].v) = 2
           /\ HasSymbol(req.params[k][2].v[1].v, ",")
           /\ HasSymbol(req.params[k][2].v[2].v, "&")

\* ---- json.loads on a string of symbols
ParseError == [val |-> [t |-> "error", v |-> << >>], rest |-> << >>]

RECURSIVE SkipSpaces(_)
SkipSpaces(string) ==
    IF string # << >> /\ Head(string) = " " THEN SkipSpaces(Tail(string)) ELSE string

\* The characters of a JSON string after its opening quote, escapes undone.
RECURSIVE ScanString(_, _)
ScanString(string, acc) ==
    IF string = << >> THEN ParseError
    ELSE IF Head(string) = "\"" THEN [val |-> Str(acc), rest |-> Tail(string)]
    ELSE IF Head(string) = "\\"
    THEN IF Len(string) < 2 THEN ParseError
         ELSE ScanString(Tail(Tail(string)), Append(acc, string[2]))
    ELSE ScanString(Tail(string), Append(acc, Head(string)))

RECURSIVE ParseValue(_)
RECURSIVE ParseItems(_, _)
RECURSIVE ParseMembers(_, _)

ParseValue(string) ==
    LET t == SkipSpaces(string)
    IN  IF t = << >> THEN ParseError
        ELSE IF Head(t) = "\"" THEN ScanString(Tail(t), << >>)
        ELSE IF Head(t) = "[" THEN ParseItems(Tail(t), << >>)
        ELSE IF Head(t) = "{" THEN ParseMembers(Tail(t), << >>)
        ELSE ParseError

\* The elements of an array after its opening bracket.
ParseItems(string, acc) ==
    LET t == SkipSpaces(string)
    IN  IF t = << >> THEN ParseError
        ELSE IF Head(t) = "]" THEN [val |-> List(acc), rest |-> Tail(t)]
        ELSE IF Head(t) = "," /\ acc # << >> THEN
            LET r == ParseValue(Tail(t))
            IN  IF r.val.t = "error" THEN ParseError
                ELSE ParseItems(r.rest, Append(acc, r.val))
        ELSE IF acc = << >> THEN
            LET r == ParseValue(t)
            IN  IF r.val.t = "error" THEN ParseError
                ELSE ParseItems(r.rest, Append(acc, r.val))
        ELSE ParseError

\* The members of an object after its opening brace.
ParseMembers(string, acc) ==
    LET t == SkipSpaces(string)
    IN  IF t = << >> THEN ParseError
        ELSE IF Head(t) = "}" THEN [val |-> Dict(acc), rest |-> Tail(t)]
        ELSE LET u == IF Head(t) = "," /\ acc # << >> THEN SkipSpaces(Tail(t))
                      ELSE IF acc = << >> THEN t ELSE << >>
                 k == IF u # << >> /\ Head(u) = "\"" THEN ScanString(Tail(u), << >>)
                      ELSE ParseError
                 c == SkipSpaces(k.rest)
             IN  IF k.val.t = "error" \/ c = << >> \/ Head(c) # ":" THEN ParseError
                 ELSE LET r == ParseValue(Tail(c))
                      IN  IF r.val.t = "error" THEN ParseError
                          ELSE ParseMembers(r.rest, Append(acc, << k.val.v, r.val >>))

\* json.loads(string): the value, or an error value when the text is not one
\* JSON document.
json_loads(string) ==
    LET r == ParseValue(string)
    IN  IF r.val.t # "error" /\ SkipSpaces(r.rest) = << >> THEN r.val ELSE ParseError.val

\* Structural equality of two values.
RECURSIVE SameValue(_, _)
SameValue(a, b) ==
    /\ a.t = b.t
    /\ Len(a.v) = Len(b.v)
    /\ IF a.t = "list" THEN \A i \in 1..Len(a.v) : SameValue(a.v[i], b.v[i])
       ELSE IF a.t = "dict"
       THEN \A i \in 1..Len(a.v) :
                a.v[i][1] = b.v[i][1] /\ SameValue(a.v[i][2], b.v[i][2])
       ELSE a.v = b.v

\* C17: when params holds a dict under the key query, the query string of
\* every wire request of the call has exactly one query= pair, and its value,
\* percent-decoded and parsed as JSON, is the dict that was passed.
C17_QueryRoundTrip ==
    \A n \in 1..Len(wire_log) :
        \A k \in 1..Len(req.params) :
            (req.params[k][1] = << "query" >> /\ req.params[k][2].t = "dict") =>
                LET pairs == SelectSeq(QueryPairs(wire_log[n].url), IsQueryPair)
                IN  /\ Len(pairs) = 1
                    /\ SameValue(json_loads(unquote(PairValue(pairs[1]))), req.params[k][2])

\* A request with the nested filter, whose strings hold a quote, a backslash
\* and an ampersand, has been sent.
C17_Witness ==
    /\ wire_log # << >>
    /\ \E k \in 1..Len(req.params) :
           req.params[k][1] = << "query" >> /\ req.params[k][2] = NestedFilter

\* What decoding the body of an error response gives, {error: reason} taking
\* the place of a body that is not JSON.
DecodedOrSynthetic(body) ==
    IF body \in {"json", "{}", "falsy_json"} THEN body ELSE "{error: reason}"

\* C18, as stated: an error raised after a response carries the status code
\* of that response and its decoded body, or {error: reason} when the body
\* is not JSON; an error raised without a response carries no status code.
C18_Original ==
    (call_state = "failed" /\ Attempted) =>
        LET o == Last(outcomes)
        IN  /\ o.kind \in {"http_error", "response"} =>
                   /\ result.status_code = o.status
                   /\ result.data = DecodedOrSynthetic(o.body)
            /\ o.kind = "raised" => result.status_code = 0

\* C18: an error raised for an HTTP error status carries that status and the
\* decoded body of the final attempt, {} standing in for a decoded value
\* that is falsy ([], null), or {error: reason} when the body is not JSON;
\* the error raised for a 2xx response whose text is not JSON carries the
\* status and {raw: body}; a ConnectionError (transport failure, timeout, or
\* a 2xx body that is not UTF-8) carries no status code and {}.
C18_ErrorPayload ==
    (call_state = "failed" /\ Attempted) =>
        LET o == Last(outcomes)
        IN  /\ o.kind = "http_error" =>
                   /\ result.status_code = o.status
                   /\ result.data = CASE o.body = "json" -> "json"
                                      [] o.body \in {"{}", "falsy_json"} -> "{}"
                                      [] OTHER -> "{error: reason}"
            /\ (o.kind = "response" /\ o.body = "bad_json") =>
                   /\ result.cls = "CheckMKAPIError"
                   /\ result.status_code = o.status
                   /\ result.data = "raw"
            /\ (o.kind = "raised" \/ (o.kind = "response" /\ o.body = "not_utf8")) =>
                   /\ result.cls = "CheckMKConnectionError"
                   /\ result.status_code = 0
                   /\ result.data = "{}"

\* A call retried after a 503 with one body failed on a 404 with another: the
\* error carries the body of the 404.
C18_Witness ==
    /\ call_state = "failed"
    /\ Len(outcomes) = 2
    /\ outcomes[1] = HTTPErrorBody(503, "not_json")
    /\ outcomes[2] = HTTPErrorBody(404, "json")
    /\ result.data = "json"
    /\ result.status_code = 404

\* C19: a wire request carries a body exactly when the verb is POST, PUT or
\* PATCH and the caller passed data (the empty dict included); GET and DELETE
\* requests carry none whatever data is.
C19_BodyIffSupplied ==
    \A n \in 1..Len(wire_log) :
        /\ wire_log[n].body # "None" <=>
               (wire_log[n].method \in {"POST", "PUT", "PATCH"} /\ req.data # "None")
        /\ wire_log[n].method \in {"GET", "DELETE"} => wire_log[n].body = "None"

\* The candidate that construction selected: the one whose probe was answered
\* with 200, the first one if there was none or detection was skipped.
DetectedCandidate ==
    IF probe_log # << >> /\ Is200(Last(probe_log)) THEN Len(probe_log) ELSE 1

\* The URL without its query string.
UrlPath(url) == BeforeFirst(url, "?")

\* C20: the URL of every wire request is {detected base URL}/{path} when the
\* call uses the API prefix, and {server_url}/cmk/{path} when it does not,
\* whichever candidate was detected.
C20_UrlConstruction ==
    \A n \in 1..Len(wire_log) :
        UrlPath(wire_log[n].url) =
            IF req.use_api_prefix
            THEN PatternUrl(DetectedCandidate) \o << "/" >> \o req.endpoint
            ELSE << "{server_url}", "/", "cmk", "/" >> \o req.endpoint

\* On a client that detected the second candidate, a call outside the API
\* prefix has been sent.
C20_Witness ==
    /\ api_base_url = 2
    /\ ~req.use_api_prefix
    /\ wire_log # << >>
    /\ req.endpoint = << "view.py" >>

\* ---- reading headers the way HTTP does: names are case-insensitive
LowerName(key) ==
    CASE key \in {"Content-Type", "content-type", "Content-type"} -> "content-type"
      [] key \in {"User-Agent", "User-agent"} -> "user-agent"
      [] key \in {"If-Match", "If-match", "if-match"} -> "if-match"
      [] key = "Accept" -> "accept"
      [] key = "Authorization" -> "authorization"
      [] key \in {"X-Trace", "X-trace"} -> "x-trace"
      [] OTHER -> key

HasHeader(h, name) == \E i \in 1..Len(h) : LowerName(h[i][1]) = name

HeaderValue(h, name) == h[CHOOSE i \in 1..Len(h) : LowerName(h[i][1]) = name][2]

UniqueNames(h) ==
    \A a, b \in 1..Len(h) : LowerName(h[a][1]) = LowerName(h[b][1]) => a = b

\* C21: the headers of every wire request hold each header the caller passed
\* with the caller's value, each default header the caller did not pass with
\* its default value, each name once, and nothing else.
C21_HeaderOverlay ==
    \A n \in 1..Len(wire_log) :
        LET h == wire_log[n].headers
            c == req.custom_headers
        IN  /\ UniqueNames(h)
            /\ \A i \in 1..Len(c) :
                   /\ HasHeader(h, LowerName(c[i][1]))
                   /\ HeaderValue(h, LowerName(c[i][1])) = c[i][2]
            /\ \A j \in 1..Len(DefaultHeaders) :
                   (~HasHeader(c, LowerName(DefaultHeaders[j][1]))) =>
                       /\ HasHeader(h, LowerName(DefaultHeaders[j][1]))
                       /\ HeaderValue(h, LowerName(DefaultHeaders[j][1])) = DefaultHeaders[j][2]
            /\ \A a \in 1..Len(h) :
                   HasHeader(c, LowerName(h[a][1])) \/ HasHeader(DefaultHeaders, LowerName(h[a][1]))

\* A request has been sent whose caller replaced one default header and added
\* a new one.
C21_Witness ==
    /\ wire_log # << >>
    /\ HasHeader(req.custom_headers, "content-type")
    /\ HasHeader(req.custom_headers, "x-trace")
    /\ Len(Last(wire_log).headers) = 5

\* C26: every wire request of a logical call equals its first one in verb,
\* URL (prefix, path and query string), body and headers, and the n-th of
\* them is made with attempt index n - 1.
C26_IdenticalRetries ==
    /\ \A n \in 1..Len(wire_log) : wire_log[n] = wire_log[1]
    /\ call_state = "attempting" => Len(wire_log) = retry_count
    /\ (Finished /\ wire_log # << >>) => Len(wire_log) = retry_count + 1

\* A POST with a body outside the API prefix has been sent three times.
C26_Witness ==
    /\ Len(wire_log) = 3
    /\ method = "POST"
    /\ req.data = "json"
    /\ ~req.use_api_prefix
    /\ wire_log[3].body = "json"

\* C28: once the client is constructed self.headers is the default set and
\* stays so, and a header passed to the previous logical call but not to the
\* current one is absent from every wire request of the current call (or, for
\* a default name, carries the default value again).
C28_NoHeaderLeak ==
    /\ client_state # "new" => headers = DefaultHeaders
    /\ \A n \in 1..Len(wire_log) : \A i \in 1..Len(prev_custom) :
           LET name == LowerName(prev_custom[i][1])
               h == wire_log[n].headers
           IN  (~HasHeader(req.custom_headers, name)) =>
                   IF HasHeader(DefaultHeaders, name)
                   THEN HasHeader(h, name)
                            /\ HeaderValue(h, name) = HeaderValue(DefaultHeaders, name)
                   ELSE ~HasHeader(h, name)

\* A call without extra headers has been sent after a call that passed
\* If-Match.
C28_Witness ==
    /\ HasHeader(prev_custom, "if-match")
    /\ req.custom_headers = << >>
    /\ calls_made = 2
    /\ wire_log # << >>

\* What the outcome o makes of a call when it is the last one.
TerminalOf(o) == request(o, config.max_retries, config.max_retries)

\* retry_count counts the retries of both paths, the wire requests never
\* exceed max_retries + 1, and the result of a finished call is what its last
\* outcome alone gives.
C29_OneCounter ==
    /\ wire_requests = Len(outcomes)
    /\ wire_requests <= config.max_retries + 1
    /\ call_state = "attempting" => retry_count = wire_requests
    /\ (Finished /\ Attempted) =>
           /\ retry_count = wire_requests - 1
           /\ result = TerminalOf(Last(outcomes))
           /\ \A i \in 1..(Len(outcomes) - 1) :
                  IsRetryable5xx(outcomes[i]) \/ IsRetriedException(outcomes[i])
                      \/ (outcomes[i].kind = "response" /\ outcomes[i].body = "not_utf8")
    /\ (Finished /\ Len(outcomes) = 2 /\ Is503(outcomes[1])
            /\ outcomes[2] = HTTPError(401)) =>
           result.cls = "CheckMKAuthenticationError"
    /\ (Finished /\ Len(outcomes) = 2 /\ Is503(outcomes[1]) /\ IsTimeout(outcomes[2])) =>
           result.cls = "CheckMKConnectionError"

\* C29: one logical call counts the retries of the HTTP-status path and of the
\* transport-error path in one counter, sends at most max_retries + 1 wire
\* requests, ends with the result its last outcome alone determines, and
\* every call in flight eventually ends in success or failure.
C29_SharedCounterTerminates ==
    /\ []C29_OneCounter
    /\ (call_state = "attempting") ~> Finished

\* A call has failed after a retry on each path: a 503, then a connection
\* reset, then a 401.
C29_Witness ==
    /\ call_state = "failed"
    /\ Len(outcomes) = 3
    /\ Is503(outcomes[1])
    /\ outcomes[2] = Raised(Exc("OSError", FALSE, FALSE))
    /\ outcomes[3] = HTTPError(401)
    /\ result.cls = "CheckMKAuthenticationError"

\* The candidates probed, in order, as the "Testing:" lines record them.
Probed == SelectSeq(debug_results, LAMBDA e : e.tag = "Testing")

\* C27: whatever max_retries is, the probes go through the candidates in list
\* order, one probe each; a 200 ends detection, so it can only be the last
\* probe; a client that selected candidate k sent exactly k probes and one
\* that fell back sent exactly NumCandidates.
C27_ProbeOnce ==
    /\ Len(probe_log) <= NumCandidates
    /\ Len(Probed) = Len(probe_log)
    /\ \A i \in 1..Len(Probed) : Probed[i].cand = i
    /\ \A i \in 1..(Len(probe_log) - 1) : ~Is200(probe_log[i])
    /\ client_state = "detecting" => probe_idx = Len(probe_log) + 1
    /\ (client_state = "ready" /\ probe_log # << >>) =>
           IF Is200(Last(probe_log))
           THEN Len(probe_log) = api_base_url
           ELSE Len(probe_log) = NumCandidates

\* With max_retries at its largest, the third candidate was selected after a
\* 503 and a timeout on the first two.
C27_Witness ==
    /\ config.max_retries = MaxRetriesBound
    /\ client_state = "ready"
    /\ Len(probe_log) = 3
    /\ Is503(probe_log[1])
    /\ IsTimeout(probe_log[2])
    /\ Is200(probe_log[3])
    /\ api_base_url = 3

\* C22: after construction of a configuration from a non-empty URL,
\* config.server_url starts with http:// or https://, does not end with a
\* slash, and is its own normal form.
C22_SchemeNoSlashIdempotent ==
    config_state = "valid" =>
        /\ startswith_scheme(server_url)
        /\ Last(server_url) # "/"
        /\ _normalize_url(server_url) = server_url

\* The coroutine in slot t has returned.
Done(t) == tasks[t].stage = "done"

IsToolsCall(r) == r.method = "tools/call"

IsError(response, code) == response.kind = "error" /\ response.code = code

\* C23: every answered tools/call that names a tool the server does not know
\* carries an error with code -32601 and no result.
C23_UnknownToolError ==
    \A t \in Tasks :
        (/\ Done(t)
         /\ IsToolsCall(tasks[t].request)
         /\ tasks[t].request.params = "object"
         /\ tasks[t].request.name \notin (HandledTools \cup remaining_tools \cup {"None"})) =>
            IsError(tasks[t].response, -32601)

\* C24: every answered request without a method carries error -32600 and
\* every answered request with an unrecognised method carries error -32601.
C24_InvalidVsNotFound ==
    \A t \in Tasks :
        Done(t) =>
            /\ tasks[t].request.method = "None" => IsError(tasks[t].response, -32600)
            /\ tasks[t].request.method = "unknown/method" =>
                   IsError(tasks[t].response, -32601)

\* C25: whatever the interleaving of the coroutines, every response carries
\* the id of the request of its own coroutine, and every answered tools/call
\* that names a tool with a handler has a result.
C25_IdsKeptAndResults ==
    \A t \in Tasks :
        Done(t) =>
            /\ tasks[t].response.kind # "none" =>
                   tasks[t].response.id = tasks[t].request.id
            /\ (IsToolsCall(tasks[t].request) /\ tasks[t].request.name \in HandledTools) =>
                   tasks[t].response.kind = "result"

\* Nothing of the lazy initialisation has happened.
Untouched ==
    /\ ~_initialized
    /\ server = [config |-> "None", client |-> "None", handlers |-> "None"]
    /\ clients_created = 0
    /\ client_state = "new"
    /\ probe_log = << >>

\* Only requests other than tools/call have been started so far.
NoToolsCallStarted ==
    \A t \in Tasks : tasks[t].stage \notin {"free", "pending"} => ~IsToolsCall(tasks[t].request)

\* _initialized goes together with a configuration, one client that finished
\* its construction, and a handler table; without it there is no client.
InitializedTogether ==
    /\ _initialized =>
           /\ server = [config |-> "set", client |-> "set", handlers |-> "set"]
           /\ client_state = "ready"
           /\ clients_created = 1
    /\ ~_initialized =>
           /\ server.client = "None"
           /\ server.handlers = "None"
           /\ clients_created = 0

\* Once _initialized is true no step changes it, the server's attributes, or
\* anything endpoint detection sets; and the step that answers with a
\* configuration error leaves _initialized false.
LatchStep ==
    /\ _initialized =>
           /\ _initialized'
           /\ server' = server
           /\ clients_created' = clients_created
           /\ client_vars' = client_vars
    /\ \A t \in Tasks :
           (tasks'[t].response.what = "config_error" /\ tasks[t].response.what # "config_error") =>
               /\ ~_initialized
               /\ ~_initialized'
               /\ server' = server
               /\ client_vars' = client_vars

C30_Invariant ==
    /\ NoToolsCallStarted => Untouched
    /\ InitializedTogether
    /\ \A t \in Tasks :
           (Done(t) /\ IsToolsCall(tasks[t].request)) =>
               IF RaisesEarly(tasks[t].request)
               THEN IsError(tasks[t].response, -32603)
               ELSE tasks[t].response.what = "config_error" \/ _initialized

====
